---- MODULE Spec2Model ----
(***************************************************************************)
(* A model of the dotbot "windows" plugin (dotbot_windows.py): the         *)
(* Windows.handle entry point, the schema validator, the background-color  *)
(* setter, the registry importer and the font synchronizer, together with  *)
(* the parts of the operating system they act on (the registry, the user   *)
(* font directory, reg.exe, SetSysColors).                                 *)
(*                                                                         *)
(* Strings the program parses are sequences of one-character strings;      *)
(* strings it only builds or compares are TLA+ strings.                    *)
(***************************************************************************)
EXTENDS Integers, Sequences, FiniteSets, TLC

(***************************************************************************)
(* Bounds of the model.                                                    *)
(***************************************************************************)
\* How many paths of SrcPathList a font source directory may hold.
NumSrcPaths == 3
\* How many paths of DstPathList the user font directory may hold at first.
NumDstPaths == 2
\* How many .reg files of RegFileList an import directory may hold.
NumRegFiles == 3

(***************************************************************************)
(* Program constants.                                                      *)
(***************************************************************************)
REG_SZ == 1
\* A data type other than REG_SZ that a stored value may have.
REG_EXPAND_SZ == REG_SZ + 1
HexColorLen == 7
MinVersion == 10
MinBuild == 17704
ChannelMax == 255

None == [t |-> "none"]

(***************************************************************************)
(* Python's int(text, base) on a sequence of characters.                   *)
(***************************************************************************)
DecDigitList == <<"0", "1", "2", "3", "4", "5", "6", "7", "8", "9">>
HexLowerList == DecDigitList \o <<"a", "b", "c", "d", "e", "f">>
HexUpperList == DecDigitList \o <<"A", "B", "C", "D", "E", "F">>
Whitespace == {" ", "\t", "\n"}

IndexIn(list, c) == CHOOSE i \in 1..Len(list) : list[i] = c

IsDigit(c, base) ==
    IF base = 16
    THEN \E i \in 1..16 : HexLowerList[i] = c \/ HexUpperList[i] = c
    ELSE \E i \in 1..10 : DecDigitList[i] = c

DigitVal(c, base) ==
    IF base = 16
    THEN IF \E i \in 1..16 : HexLowerList[i] = c
         THEN IndexIn(HexLowerList, c) - 1
         ELSE IndexIn(HexUpperList, c) - 1
    ELSE IndexIn(DecDigitList, c) - 1

RECURSIVE LStrip(_)
LStrip(s) == IF s # <<>> /\ Head(s) \in Whitespace THEN LStrip(Tail(s)) ELSE s

RECURSIVE RStrip(_)
RStrip(s) ==
    IF s # <<>> /\ s[Len(s)] \in Whitespace
    THEN RStrip(SubSeq(s, 1, Len(s) - 1))
    ELSE s

Strip(s) == RStrip(LStrip(s))

\* The digits of a literal: not empty, digits of the base with single
\* underscores between them only.
WellFormedDigits(ds, base) ==
    /\ ds # <<>>
    /\ ds[1] # "_"
    /\ ds[Len(ds)] # "_"
    /\ \A i \in 1..Len(ds) : ds[i] = "_" \/ IsDigit(ds[i], base)
    /\ \A i \in 1..(Len(ds) - 1) : ~(ds[i] = "_" /\ ds[i + 1] = "_")

RECURSIVE DigitsValue(_, _, _)
DigitsValue(ds, base, acc) ==
    IF ds = <<>> THEN acc
    ELSE IF Head(ds) = "_" THEN DigitsValue(Tail(ds), base, acc)
    ELSE DigitsValue(Tail(ds), base, acc * base + DigitVal(Head(ds), base))

\* A literal's base prefix ("0x" for base 16, with one underscore allowed
\* after it) is dropped before the digits are read.
DropPrefix(s, base) ==
    IF base = 16 /\ Len(s) >= 2 /\ s[1] = "0" /\ s[2] \in {"x", "X"}
    THEN LET r == SubSeq(s, 3, Len(s))
         IN  IF r # <<>> /\ Head(r) = "_" THEN Tail(r) ELSE r
    ELSE s

\* [ok |-> FALSE] stands for ValueError.
Literal(negative, body, base) ==
    IF WellFormedDigits(body, base)
    THEN [ok |-> TRUE,
          val |-> IF negative
                  THEN 0 - DigitsValue(body, base, 0)
                  ELSE DigitsValue(body, base, 0)]
    ELSE [ok |-> FALSE, val |-> 0]

Signed(s, base) ==
    IF s # <<>> /\ Head(s) \in {"+", "-"}
    THEN Literal(Head(s) = "-", DropPrefix(Tail(s), base), base)
    ELSE Literal(FALSE, DropPrefix(s, base), base)

PyInt(text, base) == Signed(Strip(text), base)

\* Python's str.split() with no argument: the maximal runs of characters
\* that are not whitespace.
RECURSIVE Split(_, _, _)
Split(s, cur, acc) ==
    IF s = <<>>
    THEN IF cur = <<>> THEN acc ELSE Append(acc, cur)
    ELSE IF Head(s) \in Whitespace
    THEN Split(Tail(s), <<>>, IF cur = <<>> THEN acc ELSE Append(acc, cur))
    ELSE Split(Tail(s), Append(cur, Head(s)), acc)

(***************************************************************************)
(* set_background_color, lines 299-316: the color spec parsed to          *)
(* [ok, red, green, blue]; ok = FALSE stands for the ValueError raised.    *)
(***************************************************************************)
ParseFailed == [ok |-> FALSE, red |-> 0, green |-> 0, blue |-> 0]

\* lines 303-305 and 310: the three channels, each parsed or not
Channels(r, g, b) ==
    IF r.ok /\ g.ok /\ b.ok
    THEN [ok |-> TRUE, red |-> r.val, green |-> g.val, blue |-> b.val]
    ELSE ParseFailed

\* lines 300-307
ParseHex(color) ==
    IF Len(color) # HexColorLen THEN ParseFailed
    ELSE Channels(PyInt(SubSeq(color, 2, 3), 16), PyInt(SubSeq(color, 4, 5), 16),
                  PyInt(SubSeq(color, 6, 7), 16))

\* lines 309-313
Unpack(toks) ==
    IF Len(toks) # 3 THEN ParseFailed
    ELSE Channels(PyInt(toks[1], 10), PyInt(toks[2], 10), PyInt(toks[3], 10))

ParseDecimal(color) == Unpack(Split(color, <<>>, <<>>))

InRange(c) == 0 <= c /\ c <= ChannelMax

\* lines 315-316
CheckRange(p) ==
    IF p.ok /\ InRange(p.red) /\ InRange(p.green) /\ InRange(p.blue)
    THEN p
    ELSE ParseFailed

ParseColor(color) ==
    CheckRange(IF color # <<>> /\ Head(color) = "#"
               THEN ParseHex(color)
               ELSE ParseDecimal(color))

\* target_value = f"{red} {green} {blue}"
TargetValue(p) ==
    ToString(p.red) \o " " \o ToString(p.green) \o " " \o ToString(p.blue)

(***************************************************************************)
(* Config values.  A value is a dict (a function from its keys to         *)
(* values), a str (a sequence of characters) or something else (an int,    *)
(* a list, None).                                                          *)
(***************************************************************************)
Str(s) == [t |-> "str", s |-> s]
Dict(f) == [t |-> "dict", d |-> f]
EmptyDict == Dict(<<>>)
IntValue == [t |-> "int"]
ListValue == [t |-> "list"]

\* VALID_TYPES, lines 31-41: a schema is the sequence of its items in
\* insertion order; an item's value is a type or a nested schema.
StrType == [t |-> "type", name |-> "str"]
Schema(items) == [t |-> "schema", items |-> items]
VALID_TYPES ==
    << <<"registry", Schema(<< <<"import", StrType>> >>)>>,
       <<"personalization", Schema(<< <<"background-color", StrType>> >>)>>,
       <<"fonts", Schema(<< <<"path", StrType>> >>)>> >>

ExpectedKeys(expected) == {expected[i][1] : i \in 1..Len(expected)}

\* isinstance that takes any value for a str
IsInstance_Any(value, type) == TRUE

\* isinstance(value, type)
IsInstance(value, type) == value.t = type.name

Valid == [raised |-> FALSE, msg |-> ""]
ValueError(msg) == [raised |-> TRUE, msg |-> msg]

\* validate_data, lines 112-129; the loop of lines 120-129 is
\* validate_items, from item i on.
RECURSIVE validate_data(_, _, _)
RECURSIVE validate_items(_, _, _, _)
validate_items(key, data, expected, i) ==
    IF i > Len(expected) THEN Valid
    ELSE LET sub_key == expected[i][1]
             value == expected[i][2]
         IN  IF sub_key \notin DOMAIN data.d
             THEN validate_items(key, data, expected, i + 1)
             ELSE IF value.t = "type"
             THEN IF IsInstance(data.d[sub_key], value)
                  THEN validate_items(key, data, expected, i + 1)
                  ELSE ValueError("Config value '" \o key \o "." \o sub_key
                                  \o "' must be a " \o value.name \o ".")
             ELSE LET r == validate_data(key \o "." \o sub_key,
                                         data.d[sub_key], value.items)
                  IN  IF r.raised THEN r
                      ELSE validate_items(key, data, expected, i + 1)

validate_data(key, data, expected) ==
    IF data.t # "dict"
    THEN ValueError("Config value '" \o key \o "' must be a dict.")
    ELSE IF DOMAIN data.d \ ExpectedKeys(expected) # {}
    THEN ValueError("Config value '" \o key \o "' contains unexpected keys.")
    ELSE validate_items(key, data, expected, 1)

\* data.get(section, {}).get(leaf, None), as lines 136, 154 and 239 read a
\* validated tree.
GetLeaf(data, section, leaf) ==
    IF section \in DOMAIN data.d /\ leaf \in DOMAIN data.d[section].d
    THEN data.d[section].d[leaf]
    ELSE None

(***************************************************************************)
(* The file system and the registry the plugin acts on.                    *)
(***************************************************************************)
Path(dir, stem, ext) == [dir |-> dir, stem |-> stem, ext |-> ext]
\* path.name
Name(p) == p.stem \o "." \o p.ext

SrcPathList ==
    << Path("", "A", "ttf"), Path("sub", "B", "otf"), Path("", "notes", "txt"),
       Path("", "C", "ttc"), Path("sub", "A", "ttf") >>
DstPathList ==
    << Path("", "B", "otf"), Path("", "Z", "ttf"), Path("old", "A", "ttf") >>
RegFileList == <<"x.reg", "sub/y.reg", "z.reg", "sub/deep/w.reg">>
\* The file names above in sorted() order.
NameOrder == <<"A.ttf", "B.otf", "C.ttc", "Z.ttf", "notes.txt">>

Prefix(list, n) == {list[i] : i \in 1..(IF n < Len(list) THEN n ELSE Len(list))}
SrcPaths == Prefix(SrcPathList, NumSrcPaths)
DstPaths == Prefix(DstPathList, NumDstPaths)
RegFiles == Prefix(RegFileList, NumRegFiles)

\* _get_font_files, lines 231-232
FontExtensions == {"otc", "otf", "ttc", "ttf"}
get_font_files(files) == {p \in files : p.ext \in FontExtensions}

\* {path.name: path for path in ...}: the keys of src_fonts and dst_fonts
FontNames(files) == {Name(p) : p \in get_font_files(files)}

\* sorted(names)
Sorted(names) == LET In(n) == n \in names IN SelectSeq(NameOrder, In)

NotADir == [kind |-> "absent", files |-> {}]
AFile == [kind |-> "file", files |-> {}]
Dir(files) == [kind |-> "dir", files |-> files]

\* The value lines 211-217 write for a copied font dst / font_name.
UserFontPath == "${LOCALAPPDATA}/Microsoft/Windows/Fonts"
FontValue(name) ==
    [name |-> name \o " (dotbot-windows)", value |-> UserFontPath \o "/" \o name]

Absent == [present |-> FALSE, value |-> "", type |-> 0]
Stored(value, type) == [present |-> TRUE, value |-> value, type |-> type]

\* One call of the fake OS layer: a registry read or write, SetSysColors,
\* reg.exe, mkdir, copyfile, or a log line the claims are about.
Event(op, arg, ok) == [op |-> op, arg |-> arg, ok |-> ok]

\* What winreg.OpenKey / SetValueEx can do on a write, and what
\* shutil.copyfile
WriteOutcomes == {"ok", "OSError"}
\* can do: it creates the destination before it writes to it.
CopyOutcomes ==
    {[exc |-> "none", created |-> TRUE], [exc |-> "OSError", created |-> FALSE],
     [exc |-> "OSError", created |-> TRUE]}
\* The exit codes of `reg.exe import`.
ExitCodes == {0, 1}
\* An except clause for `handler` catches `exc`: neither of ValueError and
\* OSError is a subclass of the other.
Catches(handler, exc) == handler = exc

(***************************************************************************)
(* set_background_color, lines 290-353, called with the registry value     *)
(* `reg` stored under Control Panel\Colors\Background; `wr` is what the    *)
(* registry write does if it is reached.                                   *)
(***************************************************************************)
\* The comparison of line 326 left out
NeedsUpdate_Always(reg, target_value, target_data_type) == TRUE

\* lines 325-326: get_registry_value returns (None, None) when the value
\* cannot be read, which never equals the target.  A value that is stored
\* is taken to be readable.
NeedsUpdate(reg, target_value, target_data_type) ==
    ~(reg.present /\ reg.value = target_value /\ reg.type = target_data_type)

\* ctypes.wintypes.RGB(red, green, blue), line 349
RGB(p) == p.red + 256 * p.green + 65536 * p.blue

\* lines 318-353, once the color is parsed to p and names `target`
Apply(p, target, read, reg, wr) ==
    IF ~p.ok
    THEN [exc |-> "ValueError", ret |-> FALSE, reg |-> reg, events |-> <<>>]
    ELSE IF ~NeedsUpdate(reg, target, REG_SZ)
    THEN [exc |-> "none", ret |-> TRUE, reg |-> reg, events |-> <<read>>]
    ELSE IF wr # "ok"
    THEN [exc |-> wr, ret |-> FALSE, reg |-> reg,
          events |-> <<read, Event("set_registry_value", target, FALSE)>>]
    ELSE [exc |-> "none", ret |-> TRUE, reg |-> Stored(target, REG_SZ),
          events |-> <<read, Event("set_registry_value", target, TRUE),
                       Event("SetSysColors", ToString(RGB(p)), TRUE)>>]

Parsed(p, reg, wr) ==
    Apply(p, TargetValue(p),
          Event("get_registry_value", "Background", reg.present), reg, wr)

set_background_color(color, reg, wr) == Parsed(ParseColor(color), reg, wr)

(***************************************************************************)
(* The state.                                                              *)
(***************************************************************************)
VARIABLES
    sysPlatform,  \* sys.platform
    regExe,       \* REG_EXE.is_file()
    bgReg,        \* HKCU\Control Panel\Colors\Background
    dst,          \* the user font directory
    fontReg,      \* the values under HKCU\...\CurrentVersion\Fonts
    directive,    \* handle's first argument
    data,         \* handle's second argument
    srcDir,       \* what fonts.path names
    regFiles,     \* the *.reg files under registry.import
    winver,       \* platform.win32_ver(): <<version, build>>
    pc,           \* where handle is
    validation,   \* what validate_data did
    success,      \* handle's local
    result,       \* what handle returned or raised
    tasks,        \* the tasks entered, in order
    rets,         \* what the tasks returned, in order
    taskOk,       \* the running task's local `success`
    pending,      \* the *.reg files not yet imported
    toCopy,       \* the fonts not yet copied, sorted
    copied,       \* copied_fonts
    toReg,        \* the copied fonts not yet written to the registry
    dst0,         \* the user font directory as handle_fonts found it
    log,          \* the calls of this run, in order
    lastBg,       \* the latest call of set_background_color
    prevBg,       \* the call of set_background_color before it
    orphans       \* fonts a run copied and then failed to register

vars ==
    << sysPlatform, regExe, bgReg, dst, fontReg, directive, data, srcDir,
       regFiles, winver, pc, validation, success, result, tasks, rets, taskOk, pending,
       toCopy, copied, toReg, dst0, log, lastBg, prevBg, orphans >>

osVars == << sysPlatform, regExe >>
inputVars == << directive, data, srcDir, regFiles, winver >>
importVars == << pending >>
fontVars == << toCopy, copied, toReg, dst0 >>
bgVars == << lastBg, prevBg >>

NoResult == [kind |-> "none", value |-> FALSE, exc |-> ""]
Returned(v) == [kind |-> "returned", value |-> v, exc |-> ""]
Raised(exc) == [kind |-> "raised", value |-> FALSE, exc |-> exc]

NotRun == [raised |-> FALSE, msg |-> "not run"]
NoCall == [called |-> FALSE, color |-> <<>>, exc |-> "", ret |-> FALSE,
           events |-> <<>>]
Call(color, r) == [called |-> TRUE, color |-> color, exc |-> r.exc,
                   ret |-> r.ret, events |-> r.events]

(***************************************************************************)
(* The states the machine may be in when the plugin is constructed.        *)
(***************************************************************************)
Platforms == {"win32", "linux", "cygwin"}
\* winreg is None where `import winreg` fails, lines 19-22
WinregLoaded(platform) == platform = "win32"

BgRegStates ==
    {Absent, Stored("0 153 255", REG_SZ), Stored("0 153 255", REG_EXPAND_SZ),
     Stored("0 0 0", REG_SZ)}
DstStates == {NotADir, AFile} \cup {Dir(fs) : fs \in SUBSET DstPaths}
FontRegStates(d) == SUBSET {FontValue(n) : n \in FontNames(d.files)}

InitWith(platforms, exes, bgs, dsts) ==
    /\ sysPlatform \in platforms
    /\ regExe \in exes
    /\ bgReg \in bgs
    /\ dst \in dsts
    /\ fontReg \in FontRegStates(dst)
    /\ directive = "windows"
    /\ data = EmptyDict
    /\ srcDir = NotADir
    /\ regFiles = {}
    /\ winver = <<MinVersion, MinBuild>>
    /\ pc = "idle"
    /\ validation = NotRun
    /\ success = TRUE
    /\ result = NoResult
    /\ tasks = <<>>
    /\ rets = <<>>
    /\ taskOk = TRUE
    /\ pending = {}
    /\ toCopy = <<>>
    /\ copied = {}
    /\ toReg = {}
    /\ dst0 = dst
    /\ log = <<>>
    /\ lastBg = NoCall
    /\ prevBg = NoCall
    /\ orphans = {}

(***************************************************************************)
(* Windows.handle, lines 62-102, step by step.                             *)
(***************************************************************************)
\* can_handle, lines 54-60
can_handle(d) == d = "windows"

\* handle is called: lines 70-74.
Handle(from, directives, configs, srcs, regs, vers) ==
    /\ pc \in from
    /\ directive' \in directives
    /\ data' \in configs
    /\ srcDir' \in srcs
    /\ regFiles' \in regs
    /\ winver' \in vers
    /\ validation' = NotRun
    /\ success' = TRUE
    /\ tasks' = <<>>
    /\ rets' = <<>>
    /\ taskOk' = TRUE
    /\ pending' = {}
    /\ toCopy' = <<>>
    /\ copied' = {}
    /\ toReg' = {}
    /\ dst0' = dst
    /\ log' = <<>>
    /\ IF can_handle(directive')
       THEN pc' = "gate" /\ result' = NoResult
       ELSE pc' = "done" /\ result' = Raised("ValueError")
    /\ UNCHANGED << osVars, bgReg, dst, fontReg, bgVars, orphans >>

\* The gate without the check of line 81
GatePasses_NoExe(platform, exe) ==
    /\ platform = "win32"
    /\ WinregLoaded(platform)

\* lines 76-83
GatePasses(platform, exe) ==
    /\ platform = "win32"
    /\ WinregLoaded(platform)
    /\ exe

PlatformGate ==
    /\ pc = "gate"
    /\ IF GatePasses(sysPlatform, regExe)
       THEN pc' = "validate" /\ result' = result
       ELSE pc' = "done" /\ result' = Returned(FALSE)
    /\ UNCHANGED << osVars, bgReg, dst, fontReg, inputVars, validation,
                    success, tasks, rets, taskOk, importVars, fontVars, log,
                    bgVars, orphans >>

\* lines 85-91
ValidateData ==
    /\ pc = "validate"
    /\ validation' = validate_data("windows", data, VALID_TYPES)
    /\ IF validation'.raised
       THEN pc' = "done" /\ result' = Returned(FALSE)
       ELSE pc' = "personalization" /\ result' = result
    /\ success' = TRUE
    /\ UNCHANGED << osVars, bgReg, dst, fontReg, inputVars, tasks, rets,
                    taskOk, importVars, fontVars, log, bgVars, orphans >>

\* handle_personalization, lines 131-145, with the call of line 94.  A
\* ValueError of set_background_color is caught at line 142; any other
\* exception leaves handle.
PersonalizationReturns(color, r) ==
    /\ bgReg' = r.reg
    /\ log' = log \o r.events
    /\ prevBg' = lastBg
    /\ lastBg' = Call(color, r)
    /\ IF r.exc = "none" \/ Catches("ValueError", r.exc)
       THEN /\ rets' = Append(rets, r.exc = "none" /\ r.ret)
            /\ success' = (success /\ r.exc = "none" /\ r.ret)
            /\ pc' = "registry"
            /\ result' = result
       ELSE /\ rets' = rets
            /\ success' = success
            /\ pc' = "done"
            /\ result' = Raised(r.exc)

Personalize(background_color) ==
    IF background_color = None
    THEN /\ rets' = Append(rets, TRUE)
         /\ success' = (success /\ TRUE)
         /\ pc' = "registry"
         /\ UNCHANGED << bgReg, log, bgVars, result >>
    ELSE \E wr \in WriteOutcomes :
           PersonalizationReturns(
               background_color.s,
               set_background_color(background_color.s, bgReg, wr))

HandlePersonalization ==
    /\ pc = "personalization"
    /\ tasks' = Append(tasks, "personalization")
    /\ Personalize(GetLeaf(data, "personalization", "background-color"))
    /\ UNCHANGED << osVars, dst, fontReg, inputVars, validation, taskOk,
                    importVars, fontVars, orphans >>

(***************************************************************************)
(* handle_registry_imports, lines 234-244, and import_registry_file,       *)
(* lines 246-259.                                                          *)
(***************************************************************************)
\* path.absolute(), line 242
Absolute(path) == "${CWD}/" \o path

\* `success = success and ...`: nothing is imported after a failure
RemainingAfterImport_ShortCircuit(rest, path, ok) ==
    IF ok THEN rest \ {path} ELSE {}

\* line 242: `success &= ...` goes on to the next file whatever the last
\* one returned.
RemainingAfterImport(rest, path, ok) == rest \ {path}

\* The task of line 97 returns `ok`.
ImportsReturn(ok) ==
    /\ rets' = Append(rets, ok)
    /\ success' = (success /\ ok)
    /\ pc' = "fonts"

HandleRegistryImports ==
    /\ pc = "registry"
    /\ tasks' = Append(tasks, "registry")
    /\ taskOk' = TRUE
    /\ LET registry_import == GetLeaf(data, "registry", "import")
       IN  IF registry_import = None \/ regFiles = {}
           THEN /\ pending' = {}
                /\ ImportsReturn(TRUE)
           ELSE /\ pending' = regFiles
                /\ pc' = "importing"
                /\ UNCHANGED << rets, success >>
    /\ UNCHANGED << osVars, bgReg, dst, fontReg, inputVars, validation,
                    result, fontVars, log, bgVars, orphans >>

\* One turn of the loop of line 241: rglob yields the files in an order the
\* file system decides.
ImportRegistryFile ==
    /\ pc = "importing"
    /\ \E path \in pending, returncode \in ExitCodes :
         LET ok == returncode = 0
             rest == RemainingAfterImport(pending, path, ok)
         IN  /\ log' = Append(log, Event("reg import", Absolute(path), ok))
             /\ taskOk' = (taskOk /\ ok)
             /\ pending' = rest
             /\ IF rest = {}
                THEN ImportsReturn(taskOk')
                ELSE UNCHANGED << rets, success, pc >>
    /\ UNCHANGED << osVars, bgReg, dst, fontReg, inputVars, validation,
                    result, tasks, fontVars, bgVars, orphans >>

(***************************************************************************)
(* handle_fonts, lines 147-225.                                            *)
(***************************************************************************)
\* line 162
VersionSupported(v) ==
    v[1] > MinVersion \/ (v[1] = MinVersion /\ v[2] >= MinBuild)

\* Every source font copied, installed or not
FontsToCopy_All(src_fonts, dst_fonts) == Sorted(src_fonts)
\* line 198: the fonts to copy
FontsToCopy(src_fonts, dst_fonts) == Sorted(src_fonts \ dst_fonts)
\* line 193: the fonts noted as already installed
FontsInstalled(src_fonts, dst_fonts) == Sorted(src_fonts \cap dst_fonts)
\* The loop left at the first copy that fails
RemainingAfterCopy_Abort(rest, failed) == IF failed THEN <<>> ELSE rest
\* lines 199-206: the loop goes on to the next font whatever the copy did.
RemainingAfterCopy(rest, failed) == rest
\* Every source font written to the registry, copied or not
FontsToRegister_AllSource(copied_fonts, src_fonts) == src_fonts
\* line 209: the fonts whose registry values are written
FontsToRegister(copied_fonts, src_fonts) == copied_fonts
\* line 218: the exception handle_fonts catches around set_registry_value
RegistryHandler == "ValueError"

\* dst / font_name
Installed(name) ==
    LET p == CHOOSE q \in get_font_files(srcDir.files) : Name(q) = name
    IN  Path("", p.stem, p.ext)

\* SetValueEx replaces a value of the same name.
WithValue(reg, v) == {w \in reg : w.name # v.name} \cup {v}

RECURSIVE AlreadyEvents(_)
AlreadyEvents(names) ==
    IF names = <<>> THEN <<>>
    ELSE <<Event("already installed", Head(names), TRUE)>>
         \o AlreadyEvents(Tail(names))

\* The task of line 100 returns `ok`, and handle returns at line 102.
FontsReturn(ok) ==
    /\ rets' = Append(rets, ok)
    /\ success' = (success /\ ok)
    /\ result' = Returned(success /\ ok)
    /\ pc' = "done"

\* lines 154-198: up to the first copy.  platform.win32_ver() is taken to
\* give numbers, and mkdir to succeed.
HandleFonts ==
    /\ pc = "fonts"
    /\ tasks' = Append(tasks, "fonts")
    /\ dst0' = dst
    /\ copied' = {}
    /\ toReg' = {}
    /\ LET font_path == GetLeaf(data, "fonts", "path")
           src_fonts == FontNames(srcDir.files)
           dst_fonts == FontNames(dst.files)
           todo == FontsToCopy(src_fonts, dst_fonts)
           made == IF dst.kind = "absent"
                   THEN <<Event("mkdir", UserFontPath, TRUE)>>
                   ELSE <<>>
       IN  IF font_path = None
           THEN /\ FontsReturn(TRUE)
                /\ UNCHANGED << dst, log, taskOk, toCopy >>
           ELSE IF ~VersionSupported(winver) \/ srcDir.kind # "dir"
                   \/ dst.kind = "file"
           THEN /\ FontsReturn(FALSE)
                /\ UNCHANGED << dst, log, taskOk, toCopy >>
           ELSE /\ dst' = Dir(dst.files)
                /\ log' = log \o made
                          \o AlreadyEvents(FontsInstalled(src_fonts, dst_fonts))
                /\ taskOk' = TRUE
                /\ toCopy' = todo
                /\ IF todo = <<>>
                   THEN FontsReturn(TRUE)
                   ELSE /\ pc' = "copying"
                        /\ UNCHANGED << rets, success, result >>
    /\ UNCHANGED << osVars, bgReg, fontReg, inputVars, validation,
                    importVars, bgVars, orphans >>

\* One turn of the loop of lines 198-206.
CopyFont ==
    /\ pc = "copying"
    /\ \E out \in CopyOutcomes :
         LET font_name == Head(toCopy)
             ok == out.exc = "none"
             rest == RemainingAfterCopy(Tail(toCopy), ~ok)
             copied_fonts == IF ok THEN copied \cup {font_name} ELSE copied
         IN  /\ dst' = IF out.created
                       THEN Dir(dst.files \cup {Installed(font_name)})
                       ELSE dst
             /\ log' = Append(log, Event("copyfile", font_name, ok))
             /\ taskOk' = (taskOk /\ ok)
             /\ copied' = copied_fonts
             /\ toCopy' = rest
             /\ IF rest # <<>>
                THEN /\ toReg' = toReg
                     /\ UNCHANGED << pc, rets, success, result >>
                ELSE /\ toReg' = FontsToRegister(copied_fonts,
                                                 FontNames(srcDir.files))
                     /\ IF toReg' = {}
                        THEN FontsReturn(taskOk')
                        ELSE /\ pc' = "registering"
                             /\ UNCHANGED << rets, success, result >>
    /\ UNCHANGED << osVars, bgReg, fontReg, inputVars, validation, tasks,
                    importVars, dst0, bgVars, orphans >>

\* One turn of the loop of lines 209-223: a set is walked in no fixed
\* order.  An exception that line 218 does not catch leaves handle.
RegisterFont ==
    /\ pc = "registering"
    /\ \E font_name \in toReg, wr \in WriteOutcomes :
         LET rest == toReg \ {font_name}
         IN  /\ log' = Append(log, Event("set_registry_value",
                                         FontValue(font_name).name, wr = "ok"))
             /\ IF wr = "ok"
                THEN /\ fontReg' = WithValue(fontReg, FontValue(font_name))
                     /\ orphans' = orphans
                     /\ taskOk' = taskOk
                ELSE /\ fontReg' = fontReg
                     /\ taskOk' = FALSE
                     /\ orphans' = IF Catches(RegistryHandler, wr)
                                   THEN orphans \cup {font_name}
                                   ELSE orphans \cup toReg
             /\ IF wr = "ok" \/ Catches(RegistryHandler, wr)
                THEN /\ toReg' = rest
                     /\ IF rest = {}
                        THEN FontsReturn(taskOk')
                        ELSE UNCHANGED << pc, rets, success, result >>
                ELSE /\ toReg' = toReg
                     /\ pc' = "done"
                     /\ result' = Raised(wr)
                     /\ UNCHANGED << rets, success >>
    /\ UNCHANGED << osVars, bgReg, dst, inputVars, validation, tasks,
                    importVars, toCopy, copied, dst0, bgVars >>

(***************************************************************************)
(* The inputs handle is called with.                                       *)
(***************************************************************************)
\* Color specs that denote (0, 153, 255), (0, 0, 0) and (1, 2, 3) ...
HexLower == <<"#", "0", "0", "9", "9", "f", "f">>
HexUpper == <<"#", "0", "0", "9", "9", "F", "F">>
Decimal == <<"0", " ", "1", "5", "3", " ", "2", "5", "5">>
DecimalSpaced == <<" ", "0", " ", " ", "1", "5", "3", "\t", "2", "5", "5", " ">>
HexBlack == <<"#", "0", "0", "0", "0", "0", "0">>
DecimalBlack == <<"0", " ", "0", " ", "0">>
HexSigned == <<"#", "+", "1", "+", "2", "+", "3">>
ValidColorSpecs ==
    {HexLower, HexUpper, Decimal, DecimalSpaced, HexBlack, DecimalBlack,
     HexSigned}
\* ... and color specs set_background_color rejects.
HexShort == <<"#", "0", "9", "f">>
HexLong == <<"#", "0", "0", "9", "9", "f", "f", "0">>
HexLetters == <<"#", "0", "0", "g", "g", "0", "0">>
HexNegative == <<"#", "-", "1", "0", "0", "0", "0">>
DecimalBig == <<"2", "5", "6", " ", "0", " ", "0">>
DecimalNegative == <<"-", "1", " ", "0", " ", "0">>
DecimalTwo == <<"0", " ", "1", "5", "3">>
DecimalFour == <<"0", " ", "1", " ", "2", " ", "3">>
DecimalWord == <<"0", " ", "x", " ", "0">>
Empty == <<>>
BadColorSpecs ==
    {HexShort, HexLong, HexLetters, HexNegative, DecimalBig, DecimalNegative,
     DecimalTwo, DecimalFour, DecimalWord, Empty}
ColorSpecs == ValidColorSpecs \cup BadColorSpecs

ImportDir == Str(<<"r", "e", "g">>)
FontDir == Str(<<"~", "/", "f", "o", "n", "t", "s">>)

\* A key of a dict, there or not.
No == [use |-> FALSE, v |-> None]
Yes(v) == [use |-> TRUE, v |-> v]
Item(key, o) == IF o.use THEN key :> o.v ELSE <<>>

Config(color, import, path) ==
    Dict(Item("personalization", color) @@ Item("registry", import)
         @@ Item("fonts", path))

ColorOptions(specs) == {No} \cup {Yes(Dict("background-color" :> Str(c))) : c \in specs}
ImportOptions == {No, Yes(Dict("import" :> ImportDir))}
FontOptions == {No, Yes(Dict("path" :> FontDir))}

\* Trees of every shape validate_data tells apart.
SectionValues(leaf) ==
    {EmptyDict, Dict(leaf :> Str(<<"x">>)), Dict(leaf :> IntValue),
     Dict(leaf :> EmptyDict),
     Dict((leaf :> Str(<<"x">>)) @@ ("extra" :> Str(<<"x">>))),
     Dict("extra" :> IntValue), Str(<<"x">>), None, ListValue}
SectionOptions(leaf) == {No} \cup {Yes(v) : v \in SectionValues(leaf)}
TreePool ==
    {None, IntValue, ListValue, Str(<<"x">>)}
    \cup {Dict(Item("registry", r) @@ Item("personalization", p)
               @@ Item("fonts", f) @@ Item("bogus", b)) :
            r \in SectionOptions("import"),
            p \in SectionOptions("background-color"),
            f \in SectionOptions("path"),
            b \in {No, Yes(EmptyDict), Yes(Str(<<"x">>))}}

\* Trees validate_data rejects, one of each kind.
InvalidTrees ==
    {ListValue, Dict("bogus" :> EmptyDict), Dict("fonts" :> Str(<<"x">>)),
     Dict("registry" :> Dict("import" :> IntValue))}

Versions == {<<MinVersion, MinBuild>>, <<MinVersion, MinBuild - 1>>,
             <<MinVersion + 1, 0>>, <<MinVersion - 2, MinBuild + 1>>}
SrcDirs == {NotADir} \cup {Dir(fs) : fs \in SUBSET SrcPaths}

(***************************************************************************)
(* The specifications.                                                     *)
(***************************************************************************)
\* handle, called once with a config of any kind on a machine of any kind.
Init == InitWith(Platforms, BOOLEAN, {Absent, Stored("0 153 255", REG_SZ)},
                 {NotADir, AFile, Dir({}), Dir(DstPaths)})
Next ==
    \/ Handle({"idle"}, {"windows", "link"},
              InvalidTrees
              \cup {Config(c, i, f) : c \in ColorOptions(ColorSpecs),
                                      i \in ImportOptions, f \in FontOptions},
              {NotADir, Dir(SrcPaths)}, {{}, {RegFileList[1], RegFileList[2]}},
              {<<MinVersion, MinBuild>>, <<MinVersion, MinBuild - 1>>})
    \/ PlatformGate
    \/ ValidateData
    \/ HandlePersonalization
    \/ HandleRegistryImports
    \/ ImportRegistryFile
    \/ HandleFonts
    \/ CopyFont
    \/ RegisterFont
Spec == Init /\ [][Next]_vars

\* validate_data on every tree of TreePool.
InitValidate == InitWith({"win32"}, {TRUE}, {Absent}, {NotADir})
NextValidate ==
    \/ Handle({"idle"}, {"windows"}, TreePool, {NotADir}, {{}},
              {<<MinVersion, MinBuild>>})
    \/ PlatformGate
    \/ ValidateData
SpecValidate == InitValidate /\ [][NextValidate]_vars

\* handle called again and again with a background color only.
InitColor == InitWith({"win32"}, {TRUE}, BgRegStates, {NotADir})
NextColor ==
    \/ Handle({"idle", "done"}, {"windows"},
              {Config(c, No, No) :
                 c \in ColorOptions(ValidColorSpecs \cup {HexShort, DecimalBig})},
              {NotADir}, {{}}, {<<MinVersion, MinBuild>>})
    \/ PlatformGate
    \/ ValidateData
    \/ HandlePersonalization
    \/ HandleRegistryImports
    \/ HandleFonts
SpecColor == InitColor /\ [][NextColor]_vars

\* handle called with a directory of .reg files only.
InitImports == InitWith({"win32"}, {TRUE}, {Absent}, {NotADir})
NextImports ==
    \/ Handle({"idle"}, {"windows"}, {Config(No, i, No) : i \in ImportOptions},
              {NotADir}, SUBSET RegFiles, {<<MinVersion, MinBuild>>})
    \/ PlatformGate
    \/ ValidateData
    \/ HandlePersonalization
    \/ HandleRegistryImports
    \/ ImportRegistryFile
    \/ HandleFonts
SpecImports == InitImports /\ [][NextImports]_vars

\* handle called again and again with a font directory only.
InitFonts == InitWith({"win32"}, {TRUE}, {Absent}, DstStates)
NextFonts ==
    \/ Handle({"idle", "done"}, {"windows"},
              {Config(No, No, f) : f \in FontOptions}, SrcDirs, {{}}, Versions)
    \/ PlatformGate
    \/ ValidateData
    \/ HandlePersonalization
    \/ HandleRegistryImports
    \/ HandleFonts
    \/ CopyFont
    \/ RegisterFont
SpecFonts == InitFonts /\ [][NextFonts]_vars

(***************************************************************************)
(* What the claims speak of.                                               *)
(***************************************************************************)
\* The places of the log where `op` was called.
Calls(op) == {i \in 1..Len(log) : log[i].op = op}
CallsOf(op, arg) == {i \in Calls(op) : log[i].arg = arg}
Args(op) == {log[i].arg : i \in Calls(op)}

\* handle got past the platform gate and the schema validation.
PassedGates == directive = "windows" /\ validation # NotRun /\ ~validation.raised
AllTasks == <<"personalization", "registry", "fonts">>

\* The schema, said once more: the leaf each section may hold, and the
\* trees that break it.
SectionLeaf(k) ==
    CASE k = "registry" -> "import"
      [] k = "personalization" -> "background-color"
      [] k = "fonts" -> "path"
BadSection(k, v) ==
    \/ v.t # "dict"
    \/ /\ v.t = "dict"
       /\ \/ \E j \in DOMAIN v.d : j # SectionLeaf(k)
          \/ SectionLeaf(k) \in DOMAIN v.d /\ v.d[SectionLeaf(k)].t # "str"
Rejected(tree) ==
    \/ tree.t # "dict"
    \/ /\ tree.t = "dict"
       /\ \/ \E k \in DOMAIN tree.d : k \notin {"registry", "personalization", "fonts"}
          \/ \E k \in DOMAIN tree.d \cap {"registry", "personalization", "fonts"} :
               BadSection(k, tree.d[k])

\* C9: validate_data rejects a tree exactly when it is not a mapping, or holds
\* a key the schema lacks at that level, or a key of both whose value is not
\* of the declared type (a section that is not a mapping, a leaf that is not
\* a str); a missing key is never an error, and {} validates.
C9_RejectsExactly ==
    validation # NotRun =>
        /\ validation.raised <=> Rejected(data)
        /\ data = EmptyDict => ~validation.raised
C9_Witness ==
    /\ validation # NotRun
    /\ ~validation.raised
    /\ DOMAIN data.d = {"fonts"}
    /\ DOMAIN data.d["fonts"].d = {"path"}

\* The platform is not Windows, reg.exe is missing, or the tree was rejected.
GateFailed == sysPlatform # "win32" \/ ~regExe \/ validation.raised

\* C2: with directive "windows", an unsupported platform, a missing reg.exe
\* or a tree that fails validation makes handle return False with no task
\* entered and no call to the registry, SetSysColors, reg.exe, mkdir or
\* copyfile.
C2_GateFailureNoWork ==
    (directive = "windows" /\ pc # "idle" /\ GateFailed) =>
        /\ tasks = <<>>
        /\ log = <<>>
        /\ dst = dst0
        /\ pc = "done" => result = Returned(FALSE)
C2_Witness ==
    /\ pc = "done"
    /\ directive = "windows"
    /\ sysPlatform = "win32"
    /\ ~regExe
    /\ data # EmptyDict
    /\ validation = NotRun
    /\ result = Returned(FALSE)

\* C1: past the gates, the three tasks run exactly once in the order
\* personalization, registry-import, fonts whatever way an earlier one
\* fails, and handle returns the AND of the three results.
C1_AllTasksRunAndAnd ==
    (pc = "done" /\ PassedGates) =>
        /\ tasks = AllTasks
        /\ Len(rets) = 3
        /\ result = Returned(rets[1] /\ rets[2] /\ rets[3])

\* A malformed color spec, read off the documented forms "#RRGGBB" and
\* "R G B".
BackgroundColor == GetLeaf(data, "personalization", "background-color")
Integers3(toks) ==
    /\ Len(toks) = 3
    /\ \A i \in 1..3 : PyInt(toks[i], 10).ok
MalformedHex(c) == Len(c) # 7 \/ \E i \in 2..Len(c) : ~IsDigit(c[i], 16)
MalformedDecimal(toks) ==
    \/ ~Integers3(toks)
    \/ Integers3(toks) /\ \E i \in 1..3 : ~InRange(PyInt(toks[i], 10).val)
Malformed(c) ==
    IF c # <<>> /\ Head(c) = "#"
    THEN MalformedHex(c)
    ELSE MalformedDecimal(Split(c, <<>>, <<>>))

\* C8: a color spec that is malformed (a hex form not of 7 characters or
\* with a character that is no hex digit, a decimal form without exactly 3
\* integer tokens) or out of range makes personalization return False with
\* no registry read, no registry write and no SetSysColors, and the two
\* later tasks still run.
C8_MalformedColorRejected ==
    (pc = "done" /\ PassedGates /\ BackgroundColor # None
     /\ Malformed(BackgroundColor.s)) =>
        /\ tasks = AllTasks
        /\ Len(rets) >= 1
        /\ rets[1] = FALSE
        /\ lastBg.called
        /\ lastBg.events = <<>>

\* The two latest calls of set_background_color had specs of one valid color.
SameColorTwice ==
    /\ prevBg.called
    /\ lastBg.called
    /\ ParseColor(prevBg.color).ok
    /\ ParseColor(prevBg.color) = ParseColor(lastBg.color)
ReadOnly(call) ==
    /\ call.exc = "none"
    /\ call.ret
    /\ call.events = <<Event("get_registry_value", "Background", TRUE)>>

\* C3 as stated: two calls of set_background_color in a row with specs of the
\* same valid color: the second call writes nothing, makes no SetSysColors
\* call and returns True.
C3_SecondCallNoOp == SameColorTwice => ReadOnly(lastBg)

\* C3, amended: the same, when the first call did not fail (it returned
\* True: its registry write, if it made one, went through); the stored value
\* is then the canonical "R G B" string of type REG_SZ.
C3_SecondCallNoOpAfterSuccess ==
    (SameColorTwice /\ prevBg.exc = "none") =>
        /\ ReadOnly(lastBg)
        /\ bgReg = Stored(TargetValue(ParseColor(lastBg.color)), REG_SZ)
C3_Witness ==
    /\ prevBg.called
    /\ lastBg.called
    /\ prevBg.color = HexLower
    /\ lastBg.color = Decimal
    /\ Len(prevBg.events) = 3
    /\ prevBg.events[2] = Event("set_registry_value", "0 153 255", TRUE)
    /\ ReadOnly(lastBg)

\* handle_registry_imports has returned.
RegistryReturned == PassedGates /\ Len(rets) >= 2
ImportConfigured == GetLeaf(data, "registry", "import") # None

\* C7: handle_registry_imports runs reg.exe exactly once for every file
\* found, in whatever order they are found and whatever an earlier import
\* exited with; it returns True exactly when every import exited with 0, and
\* True when there is no file.
C7_EveryFileImportedOnce ==
    RegistryReturned =>
        /\ ImportConfigured =>
             /\ \A f \in regFiles : Cardinality(CallsOf("reg import", Absolute(f))) = 1
             /\ Cardinality(Calls("reg import")) = Cardinality(regFiles)
        /\ ~ImportConfigured => Calls("reg import") = {}
        /\ rets[2] <=> \A i \in Calls("reg import") : log[i].ok
C7_Witness ==
    /\ RegistryReturned
    /\ Cardinality(regFiles) >= 2
    /\ Len(log) = Cardinality(regFiles)
    /\ ~log[1].ok
    /\ log[2].ok
    /\ log[1].arg = Absolute(RegFileList[2])
    /\ rets[2] = FALSE

\* The fonts of the source directory and of the user font directory as
\* handle_fonts found them, by file name.
SrcNames == {Name(p) : p \in {q \in srcDir.files : q.ext \in {"otc", "otf", "ttc", "ttf"}}}
DstNames == {Name(p) : p \in {q \in dst0.files : q.ext \in {"otc", "otf", "ttc", "ttf"}}}
\* handle_fonts got to its loops and returned.
FontsSynced ==
    /\ PassedGates
    /\ Len(rets) = 3
    /\ GetLeaf(data, "fonts", "path") # None
    /\ srcDir.kind = "dir"
    /\ dst0.kind # "file"
    /\ winver \in {<<MinVersion, MinBuild>>, <<MinVersion + 1, 0>>}
RegName(n) == n \o " (dotbot-windows)"

\* C4: when every copy and every registry write succeeds, handle_fonts
\* copies exactly the fonts of S minus D, once each, and writes a registry
\* value for exactly those; the fonts of S and D are only noted as already
\* installed, and the files of D stay as they were.
C4_CopiesExactlyMissing ==
    (FontsSynced /\ \A i \in 1..Len(log) : log[i].ok) =>
        /\ Args("copyfile") = SrcNames \ DstNames
        /\ Cardinality(Calls("copyfile")) = Cardinality(SrcNames \ DstNames)
        /\ Args("set_registry_value") = {RegName(n) : n \in SrcNames \ DstNames}
        /\ Cardinality(Calls("set_registry_value")) = Cardinality(SrcNames \ DstNames)
        /\ Args("already installed") = SrcNames \cap DstNames
        /\ dst0.files \subseteq dst.files
        /\ {Name(p) : p \in dst.files \ dst0.files} = SrcNames \ DstNames
        /\ rets[3] = TRUE
C4_Witness ==
    /\ FontsSynced
    /\ \A i \in 1..Len(log) : log[i].ok
    /\ SrcNames \cap DstNames # {}
    /\ SrcNames \ DstNames # {}
    /\ DstNames \ SrcNames # {}
    /\ srcDir.files \ get_font_files(srcDir.files) # {}
    /\ \A n \in SrcNames \ DstNames : FontValue(n) \in fontReg

\* C5: when the copy of a font of S minus D fails, handle_fonts returns
\* False, the font is not written to the registry, and every other font of
\* S minus D is still copied in that run, and written to the registry when
\* its own copy went through.
C5_CopyFailureIsolated ==
    (FontsSynced /\ \E i \in Calls("copyfile") : ~log[i].ok) =>
        /\ rets[3] = FALSE
        /\ \A n \in SrcNames \ DstNames :
             /\ Cardinality(CallsOf("copyfile", n)) = 1
             /\ \A i \in CallsOf("copyfile", n) :
                  IF log[i].ok
                  THEN /\ Cardinality(CallsOf("set_registry_value", RegName(n))) = 1
                       /\ FontValue(n) \in fontReg
                  ELSE CallsOf("set_registry_value", RegName(n)) = {}
C5_Witness ==
    /\ FontsSynced
    /\ rets[3] = FALSE
    /\ \E i, j \in Calls("copyfile") :
         /\ i < j
         /\ log[i] = Event("copyfile", "A.ttf", FALSE)
         /\ log[j] = Event("copyfile", "B.otf", TRUE)
    /\ FontValue("B.otf") \in fontReg
    /\ FontValue("A.ttf") \notin fontReg

\* C6: when the registry write for a copied font fails, handle_fonts still
\* tries the write for every other copied font and returns False rather
\* than aborting.
C6_RegistrationFailureIsolated ==
    (pc = "done" /\ PassedGates
     /\ \E i \in Calls("set_registry_value") : ~log[i].ok) =>
        /\ result = Returned(FALSE)
        /\ Len(rets) = 3
        /\ rets[3] = FALSE
        /\ \A n \in copied : CallsOf("set_registry_value", RegName(n)) # {}

\* C10: handle_fonts writes registry values only for fonts it copied in the
\* same run: a font whose name is in the user font directory when a run
\* starts is not written to the registry by that run, so a font that a run
\* copied and then failed to register is never registered by a later run.
C10_InstalledNeverRegistered ==
    /\ \A i \in Calls("set_registry_value") :
         /\ \A n \in DstNames : log[i].arg # RegName(n)
         /\ \E j \in 1..(i - 1), n \in SrcNames \ DstNames :
              /\ log[j] = Event("copyfile", n, TRUE)
              /\ log[i].arg = RegName(n)
    /\ \A n \in orphans :
         /\ n \in {Name(p) : p \in dst.files}
         /\ FontValue(n) \notin fontReg
C10_Witness ==
    /\ pc = "done"
    /\ result = Returned(TRUE)
    /\ \E n \in orphans :
         /\ n \in SrcNames \cap DstNames
         /\ CallsOf("already installed", n) # {}
         /\ FontValue(n) \notin fontReg

====
